---- MODULE Spec2Model ----
(***************************************************************************)
(* A model of the arithmetic engine of src/biginteger.h: BigInteger (a     *)
(* sign flag and a little-endian vector of limbs) and Rational (a pair of  *)
(* BigIntegers).  Every operator below is a transcription of the member    *)
(* function of the same name; loops become RECURSIVE operators that carry  *)
(* the loop's local variables.                                             *)
(*                                                                         *)
(* The source fixes CELL_LEN = 9 (CELL_BASE = 10^9).  TLC's integers are   *)
(* 32 bits wide, so the model keeps the radix symbolic: a limb holds       *)
(* LimbDigits decimal digits, CELL_BASE = 10^LimbDigits, and the native    *)
(* int range is scaled by the same factor, so that INT_MAX lies between    *)
(* 2*CELL_BASE and 3*CELL_BASE as it does in the source.  With             *)
(* LimbDigits = 9 the definitions are the source's own numbers.            *)
(***************************************************************************)
EXTENDS Integers, Sequences, FiniteSets, TLC

\* op      the operation applied last ("init" before any)
\* lhs     the left operand: the receiver before the operation
\* rhs     the right operand
\* acc     the receiver after the operation, or the value returned
\* thrown  the exception in flight ("none": the code has no throw)
\* text    the text handed to the parser
\* shown   the text rendered from acc
\* reread  the value parsed from shown
\* clean   no zero denominator or zero divisor has been supplied so far
\* arg     a further argument: the third operand of a three-operand
\*         expression, the native int handed to a constructor, the precision
\* frame   the local variables of an operation in progress (<<>>: none)
VARIABLES op, lhs, rhs, acc, thrown, text, shown, reread, clean, arg, frame

vars ==
  <<op, lhs, rhs, acc, thrown, text, shown, reread, clean, arg, frame>>

\* Decimal digits per limb in the model (the source: 9).
LimbDigits == 2

RECURSIVE Pow10(_)
Pow10(n) == IF n = 0 THEN 1 ELSE 10 * Pow10(n - 1)

CELL_LEN == LimbDigits
CELL_BASE == Pow10(CELL_LEN)

\* The native int: 32 bits against a radix of 10^9, scaled with the radix.
INT_MAX == 2147483647 \div Pow10(9 - LimbDigits)
INT_MIN == (-INT_MAX) - 1

Max(a, b) == IF a >= b THEN a ELSE b

\* A BigInteger object: m_digits (least significant limb first; TLA+
\* sequences are 1-based, so limb i of the source is digits[i + 1]) and
\* m_negative.
BigInt(d, n) == [digits |-> d, neg |-> n]

\* BigInteger(): m_digits({0}), m_negative(false)
BigIntegerDefault == BigInt(<<0>>, FALSE)

\* std::vector::resize(n) with value-initialised (zero) new elements
RECURSIVE Resize(_, _)
Resize(d, n) ==
  IF Len(d) > n THEN SubSeq(d, 1, n)
  ELSE IF Len(d) < n THEN Resize(Append(d, 0), n)
  ELSE d

\* Number of limbs left when the most significant zero limbs are erased;
\* 0 when every limb is zero (find_if over the reversed vector).
RECURSIVE LastNonZero(_, _)
LastNonZero(d, k) ==
  IF k = 0 THEN 0
  ELSE IF d[k] # 0 THEN k
  ELSE LastNonZero(d, k - 1)

remove_leading_zeroes(x) ==
  IF Len(x.digits) = 0 THEN x
  ELSE LET k == LastNonZero(x.digits, Len(x.digits))
       IN IF k = 0 THEN BigInt(<<0>>, FALSE)
          ELSE BigInt(SubSeq(x.digits, 1, k), x.neg)

shift_left(x) == BigInt(<<0>> \o x.digits, x.neg)

is_zero(x) == (Len(x.digits) = 1) /\ (x.digits[1] = 0)

abs(x) == BigInt(x.digits, FALSE)

\* ---- comparison -------------------------------------------------------

OpEq(left, right) == (left.neg = right.neg) /\ (left.digits = right.digits)

OpNe(left, right) == ~OpEq(left, right)

\* The limb loop of operator< without "if (left.m_negative) less = !less".
RECURSIVE LessLoop_NoFlip(_, _, _)
LessLoop_NoFlip(left, right, i) ==
  IF i >= 0
  THEN IF left.digits[i + 1] # right.digits[i + 1]
       THEN left.digits[i + 1] < right.digits[i + 1]
       ELSE LessLoop_NoFlip(left, right, i - 1)
  ELSE FALSE

\* The limb loop of operator<: i runs from size - 1 down to 0.
RECURSIVE LessLoop(_, _, _)
LessLoop(left, right, i) ==
  IF i >= 0
  THEN IF left.digits[i + 1] # right.digits[i + 1]
       THEN LET less == left.digits[i + 1] < right.digits[i + 1]
            IN IF left.neg THEN ~less ELSE less
       ELSE LessLoop(left, right, i - 1)
  ELSE FALSE

OpLess(left, right) ==
  IF left.neg # right.neg THEN left.neg
  ELSE IF Len(left.digits) # Len(right.digits)
       THEN LET less == Len(left.digits) < Len(right.digits)
            IN IF left.neg THEN ~less ELSE less
       ELSE LessLoop(left, right, Len(left.digits) - 1)

OpGreater(left, right) == OpLess(right, left)
OpLessEq(left, right) == ~OpGreater(left, right)
OpGreaterEq(left, right) == ~OpLess(left, right)

\* ---- BigInteger(int) ---------------------------------------------------

\* while (num > 0) { push_back(num % CELL_BASE); num /= CELL_BASE; }
RECURSIVE IntLimbs(_)
IntLimbs(num) ==
  IF num > 0 THEN <<num % CELL_BASE>> \o IntLimbs(num \div CELL_BASE)
  ELSE <<>>

\* The constructor for every num whose std::abs is defined.
BigIntegerInt(num) ==
  LET a == IF num < 0 THEN -num ELSE num
  IN BigInt(IF a = 0 THEN <<0>> ELSE IntLimbs(a), num < 0)

\* std::abs(INT_MIN) is undefined.  The builds either leave num at INT_MIN
\* (the loop "num > 0" never runs and m_digits stays empty) or, assuming a
\* non-negative result, run the loop on the unsigned value 2^31.
BigIntegerIntOutcomes(num) ==
  IF num = INT_MIN
  THEN {BigInt(<<>>, TRUE), BigInt(IntLimbs(INT_MAX + 1), TRUE)}
  ELSE {BigIntegerInt(num)}

\* ---- magnitude arithmetic ---------------------------------------------

\* add_abs without the "|| carry" of its loop condition: the carry out of
\* the top limb is lost.
RECURSIVE AddAbsLoop_NoCarryOut(_, _, _, _, _)
AddAbsLoop_NoCarryOut(d, o, i, carry, max_size) ==
  IF i < max_size
  THEN LET sum == d[i + 1] + carry + (IF i < Len(o) THEN o[i + 1] ELSE 0)
       IN AddAbsLoop_NoCarryOut([d EXCEPT ![i + 1] = sum % CELL_BASE], o,
                                i + 1, sum \div CELL_BASE, max_size)
  ELSE d

\* The loop of add_abs; d is m_digits after resize(max_size).
RECURSIVE AddAbsLoop(_, _, _, _, _)
AddAbsLoop(d, o, i, carry, max_size) ==
  IF (i < max_size) \/ (carry # 0)
  THEN LET d1 == IF i = Len(d) THEN Append(d, 0) ELSE d
           sum == d1[i + 1] + carry + (IF i < Len(o) THEN o[i + 1] ELSE 0)
       IN AddAbsLoop([d1 EXCEPT ![i + 1] = sum % CELL_BASE], o, i + 1,
                     sum \div CELL_BASE, max_size)
  ELSE d

add_abs(x, other) ==
  LET max_size == Max(Len(other.digits), Len(x.digits))
  IN remove_leading_zeroes(
       BigInt(AddAbsLoop(Resize(x.digits, max_size), other.digits, 0, 0,
                         max_size), x.neg))

\* The loop of sub_abs without remove_leading_zeroes: zero limbs stay on top
\* of the difference.
RECURSIVE SubAbsLoop_NoTrim(_, _, _, _)
SubAbsLoop_NoTrim(x, o, i, borrow) ==
  IF i < Len(x.digits)
  THEN LET cell_to_sub == IF i < Len(o) THEN o[i + 1] ELSE 0
           diff == x.digits[i + 1] - borrow - cell_to_sub
           x1 == BigInt([x.digits EXCEPT ![i + 1] =
                           IF diff < 0 THEN diff + CELL_BASE ELSE diff],
                        x.neg)
       IN SubAbsLoop_NoTrim(x1, o, i + 1, IF diff < 0 THEN 1 ELSE 0)
  ELSE x

\* The loop of sub_abs.  remove_leading_zeroes runs inside the loop body,
\* so the bound m_digits.size() is re-read on every iteration.
RECURSIVE SubAbsLoop(_, _, _, _)
SubAbsLoop(x, o, i, borrow) ==
  IF i < Len(x.digits)
  THEN LET cell_to_sub == IF i < Len(o) THEN o[i + 1] ELSE 0
           diff == x.digits[i + 1] - borrow - cell_to_sub
           x1 == BigInt([x.digits EXCEPT ![i + 1] =
                           IF diff < 0 THEN diff + CELL_BASE ELSE diff],
                        x.neg)
       IN SubAbsLoop(remove_leading_zeroes(x1), o, i + 1,
                     IF diff < 0 THEN 1 ELSE 0)
  ELSE x

sub_abs(x, other) == SubAbsLoop(x, other.digits, 0, 0)

\* ---- operator+=, operator-=, operator*= --------------------------------

\* operator+= with "abs() <= other.abs()" for "abs() < other.abs()": on equal
\* magnitudes the difference takes the sign of the right operand.
OpPlusEq_SwapOnTie(x, other) ==
  IF x.neg = other.neg
  THEN add_abs(x, other)
  ELSE IF OpLessEq(abs(x), abs(other))
       THEN BigInt(sub_abs(other, x).digits, other.neg)
       ELSE sub_abs(x, other)

OpPlusEq(x, other) ==
  IF x.neg = other.neg
  THEN add_abs(x, other)
  ELSE IF OpLess(abs(x), abs(other))
       THEN BigInt(sub_abs(other, x).digits, other.neg)
       ELSE sub_abs(x, other)

\* operator-= without the second "m_negative = !m_negative".
OpMinusEq_OneFlip(x, other) ==
  LET r == IF OpEq(other, x)
           THEN BigInt(<<0>>, x.neg)
           ELSE OpPlusEq(BigInt(x.digits, ~x.neg), other)
  IN IF is_zero(r) THEN BigInt(r.digits, FALSE) ELSE r

\* operator-= without the "m_digits = {0}" of its equal-operands branch.
OpMinusEq_NoClear(x, other) ==
  LET r == IF OpEq(other, x)
           THEN x
           ELSE LET s == OpPlusEq(BigInt(x.digits, ~x.neg), other)
                IN BigInt(s.digits, ~s.neg)
  IN IF is_zero(r) THEN BigInt(r.digits, FALSE) ELSE r

\* operator-= without its closing "if (is_zero()) m_negative = false".
OpMinusEq_KeepSign(x, other) ==
  IF OpEq(other, x)
  THEN BigInt(<<0>>, x.neg)
  ELSE LET s == OpPlusEq(BigInt(x.digits, ~x.neg), other)
       IN BigInt(s.digits, ~s.neg)

OpMinusEq(x, other) ==
  LET r == IF OpEq(other, x)
           THEN BigInt(<<0>>, x.neg)
           ELSE LET s == OpPlusEq(BigInt(x.digits, ~x.neg), other)
                IN BigInt(s.digits, ~s.neg)
  IN IF is_zero(r) THEN BigInt(r.digits, FALSE) ELSE r

\* The inner loop of operator*=: j < other.size() || carry.
RECURSIVE MulInner(_, _, _, _, _, _)
MulInner(res, mi, o, i, j, carry) ==
  IF (j < Len(o)) \/ (carry # 0)
  THEN LET product == res[i + j + 1] + carry
                        + mi * (IF j < Len(o) THEN o[j + 1] ELSE 0)
       IN MulInner([res EXCEPT ![i + j + 1] = product % CELL_BASE], mi, o, i,
                   j + 1, product \div CELL_BASE)
  ELSE res

RECURSIVE MulOuter(_, _, _, _)
MulOuter(res, m, o, i) ==
  IF i < Len(m)
  THEN MulOuter(MulInner(res, m[i + 1], o, i, 0, 0), m, o, i + 1)
  ELSE res

\* operator*= without its closing remove_leading_zeroes.
OpMulEq_NoTrim(x, other) ==
  BigInt(MulOuter(Resize(<<0>>, Len(x.digits) + Len(other.digits) + 1),
                  x.digits, other.digits, 0),
         x.neg # other.neg)

OpMulEq(x, other) ==
  remove_leading_zeroes(
    BigInt(MulOuter(Resize(<<0>>, Len(x.digits) + Len(other.digits) + 1),
                    x.digits, other.digits, 0),
           x.neg # other.neg))

OpPlus(left, right) == OpPlusEq(left, right)
OpMinus(left, right) == OpMinusEq(left, right)
OpMul(left, right) == OpMulEq(left, right)

\* ---- operator/=, operator%= --------------------------------------------

\* The binary search with "cur < curValue" for "cur <= curValue".
RECURSIVE QuotientLimb_Strict(_, _, _, _, _)
QuotientLimb_Strict(b, curValue, left, right, val) ==
  IF left <= right
  THEN LET mid == (left + right) \div 2
           cur == OpMul(b, BigIntegerInt(mid))
       IN IF OpLess(cur, curValue)
          THEN QuotientLimb_Strict(b, curValue, mid + 1, right, mid)
          ELSE QuotientLimb_Strict(b, curValue, left, mid - 1, val)
  ELSE val

\* The binary search for one quotient limb: the last mid with b*mid <= cur.
RECURSIVE QuotientLimb(_, _, _, _, _)
QuotientLimb(b, curValue, left, right, val) ==
  IF left <= right
  THEN LET mid == (left + right) \div 2
           cur == OpMul(b, BigIntegerInt(mid))
       IN IF OpLessEq(cur, curValue)
          THEN QuotientLimb(b, curValue, mid + 1, right, mid)
          ELSE QuotientLimb(b, curValue, left, mid - 1, val)
  ELSE val

\* The curValue update without its remove_leading_zeroes.
NextCurValue_NoTrim(curValue, limb) ==
  LET s == shift_left(curValue)
  IN IF Len(s.digits) = 0 THEN BigInt(<<limb>>, s.neg)
     ELSE BigInt([s.digits EXCEPT ![1] = limb], s.neg)

\* curValue after shift_left, the store of a.m_digits[iter] into limb 0 and
\* remove_leading_zeroes.
NextCurValue(curValue, limb) ==
  LET s == shift_left(curValue)
  IN remove_leading_zeroes(
       IF Len(s.digits) = 0 THEN BigInt(<<limb>>, s.neg)
       ELSE BigInt([s.digits EXCEPT ![1] = limb], s.neg))

\* The long-division loop: iter runs from a.size() - 1 down to 0.
RECURSIVE DivLoop(_, _, _, _, _)
DivLoop(a, b, result, curValue, iter) ==
  IF iter >= 0
  THEN LET cv == NextCurValue(curValue, a.digits[iter + 1])
           val == QuotientLimb(b, cv, 0, CELL_BASE - 1, 0)
           r1 == IF iter < Len(result.digits)
                 THEN BigInt([result.digits EXCEPT ![iter + 1] = val],
                             result.neg)
                 ELSE BigInt(Append(result.digits, val), result.neg)
       IN DivLoop(a, b, r1, OpMinusEq(cv, OpMul(b, BigIntegerInt(val))),
                  iter - 1)
  ELSE result

OpDivEq(x, other) ==
  LET result_negative == x.neg # other.neg
      a == abs(x)
      b == abs(other)
  IN IF OpEq(a, b) THEN BigInt(<<1>>, result_negative)
     ELSE IF OpLess(a, b) THEN BigIntegerInt(0)
     ELSE remove_leading_zeroes(
            DivLoop(a, b,
                    BigInt(Resize(<<0>>,
                                  Len(a.digits) - Len(b.digits) + 1),
                           result_negative),
                    BigIntegerDefault, Len(a.digits) - 1))

OpDiv(left, right) == OpDivEq(left, right)

\* operator%= subtracting the quotient instead of quotient * divisor.
OpModEq_NoProduct(x, other) == OpMinusEq(x, OpDiv(x, other))

OpModEq(x, other) == OpMinusEq(x, OpMul(OpDiv(x, other), other))

OpMod(left, right) == OpModEq(left, right)

\* ---- unary minus, ++, -- -----------------------------------------------

OpNeg(x) == IF OpNe(x, BigIntegerInt(0)) THEN BigInt(x.digits, ~x.neg) ELSE x

OpInc(x) == OpPlusEq(x, BigIntegerInt(1))

OpDec(x) == OpMinusEq(x, BigIntegerInt(1))

\* ---- text conversion ---------------------------------------------------

\* A std::string is a sequence of characters; a character is a one-character
\* TLA+ string.
DigitChars == <<"0", "1", "2", "3", "4", "5", "6", "7", "8", "9">>

isdigit(c) == \E k \in 1..10 : DigitChars[k] = c

DigitValue(c) == (CHOOSE k \in 1..10 : DigitChars[k] = c) - 1

\* std::stoul on a string of decimal digits
RECURSIVE stoul(_)
stoul(part) ==
  IF part = <<>> THEN 0
  ELSE 10 * stoul(SubSeq(part, 1, Len(part) - 1))
         + DigitValue(part[Len(part)])

\* std::to_string of an unsigned value
RECURSIVE to_string(_)
to_string(n) ==
  IF n < 10 THEN <<DigitChars[n + 1]>>
  ELSE Append(to_string(n \div 10), DigitChars[(n % 10) + 1])

\* std::string(n, '0')
RECURSIVE ZeroFill(_)
ZeroFill(n) == IF n <= 0 THEN <<>> ELSE <<"0">> \o ZeroFill(n - 1)

\* The loop of is_correct_str: every character from start on is a digit.
is_correct_str(s) ==
  IF s = <<>> THEN TRUE
  ELSE LET start == IF s[1] = "-" \/ s[1] = "+" THEN 1 ELSE 0
       IN \A i \in start..(Len(s) - 1) : isdigit(s[i + 1])

\* The loop of BigInteger(const std::string&): i steps down by CELL_LEN.
RECURSIVE ParseLoop(_, _, _, _)
ParseLoop(s, start, i, d) ==
  IF i >= start
  THEN LET end == Max(start, i + 1 - CELL_LEN)
           part == SubSeq(s, end + 1, i + 1)
       IN ParseLoop(s, start, i - CELL_LEN, Append(d, stoul(part)))
  ELSE d

BigIntegerString(s) ==
  IF s = <<>> \/ ~is_correct_str(s) THEN BigIntegerDefault
  ELSE LET m_negative == s[1] = "-"
           start == IF s[1] = "-" \/ s[1] = "+" THEN 1 ELSE 0
           r == remove_leading_zeroes(
                  BigInt(ParseLoop(s, start, Len(s) - 1, <<>>), m_negative))
       IN IF r.digits = <<>> THEN BigInt(<<0>>, r.neg) ELSE r

\* The loop of toString without the zero padding of the lower limbs.
RECURSIVE RenderLoop_NoPad(_, _)
RenderLoop_NoPad(d, i) ==
  IF i >= 0
  THEN to_string(d[i + 1]) \o RenderLoop_NoPad(d, i - 1)
  ELSE <<>>

\* The loop of toString: i runs from size - 2 down to 0.
RECURSIVE RenderLoop(_, _)
RenderLoop(d, i) ==
  IF i >= 0
  THEN ZeroFill(CELL_LEN - Len(to_string(d[i + 1]))) \o to_string(d[i + 1])
         \o RenderLoop(d, i - 1)
  ELSE <<>>

toString(x) ==
  IF is_zero(x) THEN <<"0">>
  ELSE (IF x.neg THEN <<"-">> ELSE <<>>)
         \o to_string(x.digits[Len(x.digits)])
         \o RenderLoop(x.digits, Len(x.digits) - 2)

\* ---- Rational -----------------------------------------------------------

\* A Rational object: numerator and denominator.
Rat(n, d) == [num |-> n, den |-> d]

\* The loop of Rational::gcd: a %= b; std::swap(a, b).
RECURSIVE GcdLoop(_, _)
GcdLoop(x, y) ==
  IF OpNe(y, BigIntegerInt(0)) THEN GcdLoop(y, OpModEq(x, y)) ELSE x

gcd(x, y) == GcdLoop(abs(x), abs(y))

\* normalize without the sign migration of a negative denominator.
normalize_KeepSign(r) ==
  LET g == gcd(r.num, r.den)
  IN IF OpNe(g, BigIntegerInt(0))
     THEN Rat(OpDivEq(r.num, g), OpDivEq(r.den, g))
     ELSE r

normalize(r) ==
  LET r1 == IF OpLess(r.den, BigIntegerInt(0))
            THEN Rat(OpNeg(r.num), OpNeg(r.den))
            ELSE r
      g == gcd(r1.num, r1.den)
  IN IF OpNe(g, BigIntegerInt(0))
     THEN Rat(OpDivEq(r1.num, g), OpDivEq(r1.den, g))
     ELSE r1

\* Rational(): numerator(0), denominator(1)
RationalDefault == Rat(BigIntegerInt(0), BigIntegerInt(1))

\* Rational(int num): numerator(num), denominator(1); no normalize.
RationalIntOutcomes(n) ==
  {Rat(x, BigIntegerInt(1)) : x \in BigIntegerIntOutcomes(n)}

\* Rational(const BigInteger& num)
RationalBig(n) == Rat(n, BigIntegerInt(1))

\* Rational(const BigInteger& num, const BigInteger& denom)
RationalPair(n, d) == normalize(Rat(n, d))

\* operator+= without its closing normalize().
RatPlusEq_NoNormalize(x, other) ==
  Rat(OpPlus(OpMul(x.num, other.den), OpMul(other.num, x.den)),
      OpMulEq(x.den, other.den))

RatPlusEq(x, other) ==
  normalize(Rat(OpPlus(OpMul(x.num, other.den), OpMul(other.num, x.den)),
                OpMulEq(x.den, other.den)))

RatMinusEq(x, other) ==
  normalize(Rat(OpMinus(OpMul(x.num, other.den), OpMul(other.num, x.den)),
                OpMulEq(x.den, other.den)))

RatMulEq(x, other) ==
  normalize(Rat(OpMulEq(x.num, other.num), OpMulEq(x.den, other.den)))

RatDivEq(x, other) ==
  normalize(Rat(OpMulEq(x.num, other.den), OpMulEq(x.den, other.num)))

RatNeg(x) == RationalPair(OpNeg(x.num), x.den)

\* The compound assignments called as a op= a: other is a reference to the
\* receiver, so every read of other.numerator or other.denominator sees what
\* the statements before it have stored.
RatPlusEqSelf(x) ==
  LET numerator == OpPlus(OpMul(x.num, x.den), OpMul(x.num, x.den))
      denominator == OpMulEq(x.den, x.den)
  IN normalize(Rat(numerator, denominator))

RatMinusEqSelf(x) ==
  LET numerator == OpMinus(OpMul(x.num, x.den), OpMul(x.num, x.den))
      denominator == OpMulEq(x.den, x.den)
  IN normalize(Rat(numerator, denominator))

RatMulEqSelf(x) ==
  LET numerator == OpMulEq(x.num, x.num)
      denominator == OpMulEq(x.den, x.den)
  IN normalize(Rat(numerator, denominator))

\* numerator *= other.denominator; denominator *= other.numerator: the
\* second statement reads the numerator the first one has stored.
RatDivEqSelf(x) ==
  LET numerator == OpMulEq(x.num, x.den)
      denominator == OpMulEq(x.den, numerator)
  IN normalize(Rat(numerator, denominator))

\* Rational::toString
RatToString(x) ==
  IF OpEq(x.den, BigIntegerInt(1)) THEN toString(x.num)
  ELSE toString(x.num) \o <<"/">> \o toString(x.den)

\* The loop of asDecimal: one digit per iteration, num = (num % den) * 10.
RECURSIVE DecimalLoop(_, _, _, _, _)
DecimalLoop(num, den, result, i, precision) ==
  IF i < precision
  THEN LET digit == OpDiv(num, den)
       IN DecimalLoop(OpMul(OpMod(num, den), BigIntegerInt(10)), den,
                      result \o toString(digit), i + 1, precision)
  ELSE result

\* asDecimal without the '-' it puts before a zero integer part.
asDecimal_NoLoneMinus(r, precision) ==
  LET integerPart == OpDiv(r.num, r.den)
      num == OpModEq(r.num, r.den)
      result == toString(integerPart)
  IN IF precision = 0 THEN result
     ELSE DecimalLoop(OpMul(abs(num), BigIntegerInt(10)), r.den,
                      result \o <<".">>, 0, precision)

asDecimal(r, precision) ==
  LET integerPart == OpDiv(r.num, r.den)
      num == OpModEq(r.num, r.den)
      result == (IF OpLess(num, BigIntegerInt(0))
                      /\ OpEq(integerPart, BigIntegerInt(0))
                 THEN <<"-">> ELSE <<>>) \o toString(integerPart)
  IN IF precision = 0 THEN result
     ELSE DecimalLoop(OpMul(abs(num), BigIntegerInt(10)), r.den,
                      result \o <<".">>, 0, precision)

RatPlus(left, right) == RatPlusEq(left, right)
RatMinus(left, right) == RatMinusEq(left, right)
RatMul(left, right) == RatMulEq(left, right)
RatDiv(left, right) == RatDivEq(left, right)

RatEq(left, right) ==
  OpEq(OpMul(left.num, right.den), OpMul(right.num, left.den))

RatNe(left, right) == ~RatEq(left, right)

\* operator< comparing the numerators without cross-multiplying.
RatLess_NoCross(left, right) == OpLess(left.num, right.num)

RatLess(left, right) ==
  OpLess(OpMul(left.num, right.den), OpMul(right.num, left.den))

RatGreater(left, right) == RatLess(right, left)
RatLessEq(left, right) == ~RatLess(right, left)
RatGreaterEq(left, right) == ~RatLess(left, right)

\* ---- reference arithmetic ----------------------------------------------

\* The integer a BigInteger denotes.
RECURSIVE Magnitude(_)
Magnitude(d) ==
  IF d = <<>> THEN 0 ELSE d[1] + CELL_BASE * Magnitude(Tail(d))

Value(x) == IF x.neg THEN -Magnitude(x.digits) ELSE Magnitude(x.digits)

Abs(n) == IF n < 0 THEN -n ELSE n

\* The quotient rounded toward zero and the matching remainder.
TruncDiv(a, b) ==
  IF (a < 0) = (b < 0) THEN Abs(a) \div Abs(b) ELSE -(Abs(a) \div Abs(b))

TruncMod(a, b) == a - TruncDiv(a, b) * b

RECURSIVE IntGcd(_, _)
IntGcd(m, n) == IF n = 0 THEN m ELSE IntGcd(n, m % n)

\* Lowest terms with a positive denominator; zero is 0/1.
LowestTerms(r) ==
  /\ Value(r.den) > 0
  /\ IntGcd(Abs(Value(r.num)), Value(r.den)) = 1

\* Canonical form: limbs in range, no most significant zero limb except in
\* the single limb [0], no negative zero.
Canonical(x) ==
  /\ Len(x.digits) >= 1
  /\ \A k \in 1..Len(x.digits) : x.digits[k] \in 0..(CELL_BASE - 1)
  /\ (Len(x.digits) > 1 => x.digits[Len(x.digits)] # 0)
  /\ (Magnitude(x.digits) = 0 => ~x.neg)

\* The canonical decimal text of an integer: "0", or an optional '-' and
\* digits without a leading zero.
Literal(n) == (IF n < 0 THEN <<"-">> ELSE <<>>) \o to_string(Abs(n))

\* ---- inputs -------------------------------------------------------------

\* Every integer up to SmallRange is an operand, with both signs.
SmallRange == 25

\* The accumulator of the chained specification stays within MaxAcc.
MaxAcc == 220

\* Magnitudes around the limb boundaries of the radices 10^2 and 10^3 and
\* around half a limb, up to three limbs of the radix 10^2.
BoundaryMagnitudes ==
  {49, 50, 51, 98, 99, 100, 101, 102, 199, 200, 201, 999, 1000, 1001, 5000,
   9899, 9900, 9901, 9998, 9999, 10000, 10001, 10100, 19999, 20000, 30299,
   40000}

OperandValues ==
  LET m == (0..SmallRange) \cup BoundaryMagnitudes
  IN m \cup {-n : n \in m}

\* Canonical BigIntegers, built as the program builds them from text.
Operands == {BigIntegerString(Literal(n)) : n \in OperandValues}

\* Native integers handed to BigInteger(int).
IntInputs ==
  {INT_MIN, -CELL_BASE, -1, 0, 1, 2, CELL_BASE - 1, CELL_BASE, INT_MAX}

\* Literals matching [+-]?[0-9]+ handed to BigInteger(const std::string&).
LiteralInputs ==
  {<<"+", "7">>, <<"-", "0">>, <<"0", "0", "7">>, <<"-", "1", "5", "0">>,
   <<"9", "9">>, <<"+", "1", "0", "0">>, <<"-", "0", "0", "3">>}

Constructed ==
  UNION {BigIntegerIntOutcomes(n) : n \in IntInputs}
    \cup {BigIntegerString(l) : l \in LiteralInputs}

\* ---- Spec: chains of compound assignments on one BigInteger --------------

Idle ==
  /\ lhs = BigIntegerDefault /\ rhs = BigIntegerDefault /\ thrown = "none"
  /\ text = <<>> /\ shown = <<>> /\ reread = BigIntegerDefault
  /\ clean = TRUE
  /\ arg = 0 /\ frame = <<>>

Init ==
  /\ op = "init"
  /\ acc \in Constructed
  /\ Idle

InRange(x) == Magnitude(x.digits) <= MaxAcc

PlusEq ==
  \E other \in Constructed :
    /\ InRange(OpPlusEq(acc, other))
    /\ acc' = OpPlusEq(acc, other)
    /\ op' = "+="
    /\ UNCHANGED <<lhs, rhs, thrown, text, shown, reread, clean,
              arg, frame>>

MinusEq ==
  \E other \in Constructed :
    /\ InRange(OpMinusEq(acc, other))
    /\ acc' = OpMinusEq(acc, other)
    /\ op' = "-="
    /\ UNCHANGED <<lhs, rhs, thrown, text, shown, reread, clean,
              arg, frame>>

MulEq ==
  \E other \in Constructed :
    /\ InRange(OpMulEq(acc, other))
    /\ acc' = OpMulEq(acc, other)
    /\ op' = "*="
    /\ UNCHANGED <<lhs, rhs, thrown, text, shown, reread, clean,
              arg, frame>>

\* The callers of this specification divide by non-zero values only.
DivEq ==
  \E other \in Constructed :
    /\ Magnitude(other.digits) # 0
    /\ InRange(OpDivEq(acc, other))
    /\ acc' = OpDivEq(acc, other)
    /\ op' = "/="
    /\ UNCHANGED <<lhs, rhs, thrown, text, shown, reread, clean,
              arg, frame>>

ModEq ==
  \E other \in Constructed :
    /\ Magnitude(other.digits) # 0
    /\ InRange(OpModEq(acc, other))
    /\ acc' = OpModEq(acc, other)
    /\ op' = "%="
    /\ UNCHANGED <<lhs, rhs, thrown, text, shown, reread, clean,
              arg, frame>>

Negate ==
  /\ acc' = OpNeg(acc)
  /\ op' = "neg"
  /\ UNCHANGED <<lhs, rhs, thrown, text, shown, reread, clean,
              arg, frame>>

Increment ==
  /\ InRange(OpInc(acc))
  /\ acc' = OpInc(acc)
  /\ op' = "++"
  /\ UNCHANGED <<lhs, rhs, thrown, text, shown, reread, clean,
              arg, frame>>

Decrement ==
  /\ InRange(OpDec(acc))
  /\ acc' = OpDec(acc)
  /\ op' = "--"
  /\ UNCHANGED <<lhs, rhs, thrown, text, shown, reread, clean,
              arg, frame>>

Next ==
  \/ PlusEq \/ MinusEq \/ MulEq \/ DivEq \/ ModEq
  \/ Negate \/ Increment \/ Decrement

Spec == Init /\ [][Next]_vars

\* C1: every BigInteger built from a native integer or a well-formed
\* literal, and every result of +=, -=, *=, /=, %=, unary minus, ++ and --
\* on such values, is canonical: limbs below the radix, no most significant
\* zero limb but in [0], and no negative zero.
C1_CanonicalForm == Canonical(acc)

\* The same invariant for values that do not descend from BigInteger(INT_MIN).
CanonicalFormDefinedAbs ==
  (acc.digits # <<>>) => Canonical(acc)

\* ---- SpecBinary: one binary operator applied to a pair of operands -----

InitBinary ==
  /\ op = "init"
  /\ lhs \in Operands
  /\ rhs \in Operands
  /\ acc = lhs
  /\ thrown = "none"
  /\ text = <<>> /\ shown = <<>> /\ reread = BigIntegerDefault
  /\ clean = TRUE
  /\ arg = 0 /\ frame = <<>>

Add ==
  /\ op = "init"
  /\ acc' = OpPlus(lhs, rhs)
  /\ op' = "+"
  /\ UNCHANGED <<lhs, rhs, thrown, text, shown, reread, clean,
              arg, frame>>

Subtract ==
  /\ op = "init"
  /\ acc' = OpMinus(lhs, rhs)
  /\ op' = "-"
  /\ UNCHANGED <<lhs, rhs, thrown, text, shown, reread, clean,
              arg, frame>>

Multiply ==
  /\ op = "init"
  /\ acc' = OpMul(lhs, rhs)
  /\ op' = "*"
  /\ UNCHANGED <<lhs, rhs, thrown, text, shown, reread, clean,
              arg, frame>>

\* operator/ and operator% have no guard: a zero right operand runs the
\* same code.
Divide ==
  /\ op = "init"
  /\ acc' = OpDiv(lhs, rhs)
  /\ op' = "/"
  /\ UNCHANGED <<lhs, rhs, thrown, text, shown, reread, clean,
              arg, frame>>

Modulo ==
  /\ op = "init"
  /\ acc' = OpMod(lhs, rhs)
  /\ op' = "%"
  /\ UNCHANGED <<lhs, rhs, thrown, text, shown, reread, clean,
              arg, frame>>

NextBinary == Add \/ Subtract \/ Multiply \/ Divide \/ Modulo

SpecBinary == InitBinary /\ [][NextBinary]_vars

\* C2: for b # 0 the remainder a % b and the quotient a / b recompose the
\* dividend: a == (a/b)*b + (a%b), under the library's own equality.
C2_DivisionLaw ==
  (op = "%" /\ ~is_zero(rhs)) =>
    OpEq(lhs, OpPlus(OpMul(OpDiv(lhs, rhs), rhs), acc))

C2_Witness ==
  /\ op = "%" /\ lhs.neg /\ ~rhs.neg
  /\ Len(lhs.digits) = 3 /\ Len(rhs.digits) = 2
  /\ ~is_zero(acc)

\* C3: for b # 0 the quotient is the mathematical quotient rounded toward
\* zero, in canonical form (so zero when |a| < |b|, negative exactly when
\* the signs differ and the magnitude is not zero).
C3_TruncatedQuotient ==
  (op = "/" /\ ~is_zero(rhs)) =>
    /\ Value(acc) = TruncDiv(Value(lhs), Value(rhs))
    /\ Canonical(acc)

C3_Witness ==
  /\ op = "/" /\ Value(lhs) = -5 /\ Value(rhs) = 2
  /\ acc = BigInt(<<2>>, TRUE)

\* C4: for b # 0 the remainder is smaller in magnitude than the divisor,
\* carries the sign of the dividend when it is not zero, and is the
\* canonical zero otherwise.
C4_Remainder ==
  (op = "%" /\ ~is_zero(rhs)) =>
    /\ Abs(Value(acc)) < Abs(Value(rhs))
    /\ (Value(acc) # 0 => acc.neg = lhs.neg)
    /\ (Value(acc) = 0 => acc = BigInt(<<0>>, FALSE))
    /\ Canonical(acc)

C4_Witness ==
  /\ op = "%" /\ lhs.neg /\ ~rhs.neg /\ acc.neg
  /\ Len(lhs.digits) >= 2

\* C5: a division or modulo by zero raises DivisionByZero and leaves the
\* dividend as it was.
C5_DivisionByZeroRaised ==
  (op \in {"/", "%"} /\ is_zero(rhs)) =>
    (thrown = "DivisionByZero" /\ acc = lhs)

\* C10: a + b is the exact integer sum in canonical form.
C10_ExactSum ==
  (op = "+") =>
    /\ Value(acc) = Value(lhs) + Value(rhs)
    /\ Canonical(acc)

\* The carry out of the top limb: (base - 1) + 1 is [0, 1].
C10_Witness ==
  /\ op = "+"
  /\ lhs = BigInt(<<CELL_BASE - 1>>, FALSE) /\ rhs = BigInt(<<1>>, FALSE)
  /\ acc = BigInt(<<0, 1>>, FALSE)

\* C11: a * b is the exact integer product in canonical form; a product that
\* is not zero is negative exactly when the operand signs differ, and a
\* product with a zero operand is the canonical zero whatever the sign of
\* the other operand.
C11_ExactProduct ==
  (op = "*") =>
    /\ Value(acc) = Value(lhs) * Value(rhs)
    /\ Canonical(acc)
    /\ (Value(acc) # 0 => (acc.neg = (lhs.neg # rhs.neg)))
    /\ ((is_zero(lhs) \/ is_zero(rhs)) => acc = BigInt(<<0>>, FALSE))

\* A negative operand of three limbs times zero.
C11_Witness ==
  /\ op = "*"
  /\ lhs.neg /\ Len(lhs.digits) = 3 /\ is_zero(rhs)
  /\ acc = BigInt(<<0>>, FALSE)

\* C12: addition and multiplication are commutative under the library's own
\* equality (same sign flag, same limbs): a + b == b + a and a * b == b * a.
C12_Commutative ==
  /\ (op = "+") => OpEq(acc, OpPlus(rhs, lhs))
  /\ (op = "*") => OpEq(acc, OpMul(rhs, lhs))

\* Operands of opposite signs and different limb counts, the shorter one on
\* the left: a + b takes the branch that swaps, b + a the one that does not.
C12_Witness ==
  /\ op = "+"
  /\ lhs.neg /\ ~rhs.neg
  /\ Len(lhs.digits) = 1 /\ Len(rhs.digits) = 3
  /\ acc = OpPlus(rhs, lhs) /\ ~is_zero(acc)

\* C14: a - a is the canonical zero, one zero limb and a non-negative sign,
\* for positive, negative and zero a.
C14_SelfDifference ==
  (op = "-" /\ OpEq(lhs, rhs)) => acc = BigInt(<<0>>, FALSE)

\* A negative a of three limbs.
C14_Witness ==
  /\ op = "-" /\ OpEq(lhs, rhs)
  /\ lhs.neg /\ Len(lhs.digits) = 3
  /\ acc = BigInt(<<0>>, FALSE)

\* C21: a - b is the exact integer difference in canonical form and equals
\* a + (-b) under the library's own equality, also when a or b is zero and
\* when the signs differ.
C21_ExactDifference ==
  (op = "-") =>
    /\ Value(acc) = Value(lhs) - Value(rhs)
    /\ Canonical(acc)
    /\ OpEq(acc, OpPlus(lhs, OpNeg(rhs)))

\* 0 - b for a positive b of two limbs: operator-= flips the sign of the
\* zero before it adds.
C21_Witness ==
  /\ op = "-"
  /\ is_zero(lhs) /\ ~rhs.neg /\ Len(rhs.digits) = 2
  /\ acc = BigInt(rhs.digits, TRUE)

\* ---- SpecCompare: one comparison operator applied to a pair ------------

InitCompare ==
  /\ op = "init"
  /\ lhs \in Operands
  /\ rhs \in Operands
  /\ acc = FALSE
  /\ thrown = "none"
  /\ text = <<>> /\ shown = <<>> /\ reread = BigIntegerDefault
  /\ clean = TRUE
  /\ arg = 0 /\ frame = <<>>

Equal ==
  /\ op = "init"
  /\ acc' = OpEq(lhs, rhs)
  /\ op' = "=="
  /\ UNCHANGED <<lhs, rhs, thrown, text, shown, reread, clean,
                 arg, frame>>

NotEqual ==
  /\ op = "init"
  /\ acc' = OpNe(lhs, rhs)
  /\ op' = "!="
  /\ UNCHANGED <<lhs, rhs, thrown, text, shown, reread, clean,
                 arg, frame>>

Less ==
  /\ op = "init"
  /\ acc' = OpLess(lhs, rhs)
  /\ op' = "<"
  /\ UNCHANGED <<lhs, rhs, thrown, text, shown, reread, clean,
                 arg, frame>>

LessEq ==
  /\ op = "init"
  /\ acc' = OpLessEq(lhs, rhs)
  /\ op' = "<="
  /\ UNCHANGED <<lhs, rhs, thrown, text, shown, reread, clean,
                 arg, frame>>

Greater ==
  /\ op = "init"
  /\ acc' = OpGreater(lhs, rhs)
  /\ op' = ">"
  /\ UNCHANGED <<lhs, rhs, thrown, text, shown, reread, clean,
                 arg, frame>>

GreaterEq ==
  /\ op = "init"
  /\ acc' = OpGreaterEq(lhs, rhs)
  /\ op' = ">="
  /\ UNCHANGED <<lhs, rhs, thrown, text, shown, reread, clean,
                 arg, frame>>

NextCompare ==
  Equal \/ NotEqual \/ Less \/ LessEq \/ Greater \/ GreaterEq

SpecCompare == InitCompare /\ [][NextCompare]_vars

\* C15: on canonical operands the comparison operators are the numeric
\* order: each returns what the same comparison of the two values gives,
\* exactly one of a < b, a == b, a > b holds, a <= b is the negation of
\* a > b and a >= b of a < b, and between two negative operands a < b is
\* the magnitude comparison the other way round.
C15_NumericOrder ==
  /\ (op = "<") => (acc = (Value(lhs) < Value(rhs)))
  /\ (op = "==") => (acc = (Value(lhs) = Value(rhs)))
  /\ (op = "!=") => (acc = (Value(lhs) # Value(rhs)))
  /\ (op = ">") => (acc = (Value(lhs) > Value(rhs)))
  /\ (op = "<=") =>
       (acc = (Value(lhs) <= Value(rhs)) /\ acc = ~OpGreater(lhs, rhs))
  /\ (op = ">=") =>
       (acc = (Value(lhs) >= Value(rhs)) /\ acc = ~OpLess(lhs, rhs))
  /\ Cardinality({k \in 1..3 :
                    <<OpLess(lhs, rhs), OpEq(lhs, rhs),
                      OpGreater(lhs, rhs)>>[k]}) = 1
  /\ (lhs.neg /\ rhs.neg) =>
       (OpLess(lhs, rhs) = OpLess(abs(rhs), abs(lhs)))

\* Two negative operands of three limbs that differ below the top limb:
\* the one of larger magnitude is the smaller.
C15_Witness ==
  /\ op = "<" /\ acc = TRUE
  /\ lhs.neg /\ rhs.neg
  /\ Len(lhs.digits) = 3 /\ Len(rhs.digits) = 3
  /\ lhs.digits[3] = rhs.digits[3]
  /\ Magnitude(lhs.digits) > Magnitude(rhs.digits)

\* ---- SpecInt: BigInteger(int) on every native int ----------------------

InitInt ==
  /\ op = "init"
  /\ arg \in INT_MIN..INT_MAX
  /\ acc = BigIntegerDefault
  /\ lhs = BigIntegerDefault /\ rhs = BigIntegerDefault
  /\ thrown = "none"
  /\ text = <<>> /\ shown = <<>> /\ reread = BigIntegerDefault
  /\ clean = TRUE
  /\ frame = <<>>

\* BigInteger(arg)
ConstructInt ==
  /\ op = "init"
  /\ acc' \in BigIntegerIntOutcomes(arg)
  /\ op' = "int"
  /\ UNCHANGED <<lhs, rhs, thrown, text, shown, reread, clean,
                 arg, frame>>

NextInt == ConstructInt

SpecInt == InitInt /\ [][NextInt]_vars

\* C16: BigInteger(n) is canonical and denotes n for every native int n,
\* the most negative one and the two-limb magnitudes included.
C16_IntConstruction ==
  (op = "int") => (Canonical(acc) /\ Value(acc) = arg)

\* The same for every n whose std::abs is defined.
IntConstructionDefinedAbs ==
  (op = "int" /\ arg # INT_MIN) => (Canonical(acc) /\ Value(acc) = arg)

\* ---- SpecTernary: sums of three operands, grouped either way -----------

\* Magnitudes at the limb boundaries: sums and differences of these gain
\* and lose limbs, and every value meets its own negation.
TripleMagnitudes ==
  {0, 1, 2, CELL_BASE \div 2, CELL_BASE - 2, CELL_BASE - 1, CELL_BASE,
   CELL_BASE + 1, CELL_BASE * CELL_BASE - CELL_BASE,
   CELL_BASE * CELL_BASE - 1, CELL_BASE * CELL_BASE,
   CELL_BASE * CELL_BASE + 1}

TripleOperands ==
  {BigIntegerString(Literal(n)) : n \in TripleMagnitudes}
    \cup {BigIntegerString(Literal(-n)) : n \in TripleMagnitudes}

InitTernary ==
  /\ op = "init"
  /\ lhs \in TripleOperands
  /\ rhs \in TripleOperands
  /\ arg \in TripleOperands
  /\ acc = lhs
  /\ thrown = "none"
  /\ text = <<>> /\ shown = <<>> /\ reread = BigIntegerDefault
  /\ clean = TRUE
  /\ frame = <<>>

\* (a + b) + c
SumLeft ==
  /\ op = "init"
  /\ acc' = OpPlus(OpPlus(lhs, rhs), arg)
  /\ op' = "(a+b)+c"
  /\ UNCHANGED <<lhs, rhs, thrown, text, shown, reread, clean,
                 arg, frame>>

\* a + (b + c)
SumRight ==
  /\ op = "init"
  /\ acc' = OpPlus(lhs, OpPlus(rhs, arg))
  /\ op' = "a+(b+c)"
  /\ UNCHANGED <<lhs, rhs, thrown, text, shown, reread, clean,
                 arg, frame>>

NextTernary == SumLeft \/ SumRight

SpecTernary == InitTernary /\ [][NextTernary]_vars

\* C13: addition is associative under the library's own equality, whatever
\* the signs: (a + b) + c == a + (b + c), also when an intermediate sum is
\* zero or has another limb count than its operands.
C13_Associative ==
  /\ (op = "(a+b)+c") => OpEq(acc, OpPlus(lhs, OpPlus(rhs, arg)))
  /\ (op = "a+(b+c)") => OpEq(OpPlus(OpPlus(lhs, rhs), arg), acc)

\* a + b is zero, b + c has one limb fewer than b, and the sum is c.
C13_Witness ==
  /\ op = "(a+b)+c"
  /\ Len(lhs.digits) = 2 /\ rhs.neg /\ ~arg.neg /\ ~is_zero(arg)
  /\ is_zero(OpPlus(lhs, rhs))
  /\ Len(OpPlus(rhs, arg).digits) = 1
  /\ acc = arg

\* ---- SpecRational: chains of compound assignments on one Rational ------

\* Numerators and denominators of the chained Rational stay within MaxRat.
MaxRat == 16

Big(n) == BigIntegerString(Literal(n))

\* Arguments (n, d) of Rational(n, d), zero denominators among them.
PairInputs ==
  {<<4, 8>>, <<-1, 2>>, <<-2, 3>>, <<3, -4>>, <<-5, -10>>, <<0, -7>>,
   <<150, 100>>, <<12, 1800>>, <<1, 0>>, <<-3, 0>>, <<0, 0>>}

\* Native integers handed to Rational(int).
RationalIntInputs == {INT_MIN, -1, 0, 3}

\* A constructed Rational; valid when the denominator asked for is not zero.
RationalInputs ==
  UNION {{[r |-> x, valid |-> TRUE] : x \in RationalIntOutcomes(n)}
           : n \in RationalIntInputs}
    \cup {[r |-> RationalPair(Big(p[1]), Big(p[2])), valid |-> p[2] # 0]
            : p \in PairInputs}

\* A Rational is zero-valued when its stored numerator has magnitude zero.
RatIsZero(x) == Magnitude(x.num.digits) = 0

\* Right operands are Rationals built with a denominator that is not zero.
RationalOperands == {i \in RationalInputs : i.valid}

RatInRange(x) ==
  Magnitude(x.num.digits) <= MaxRat /\ Magnitude(x.den.digits) <= MaxRat

InitRational ==
  /\ op = "init"
  /\ \E i \in RationalInputs : acc = i.r /\ clean = i.valid
  /\ lhs = RationalDefault /\ rhs = RationalDefault
  /\ thrown = "none"
  /\ text = <<>> /\ shown = <<>> /\ reread = BigIntegerDefault
  /\ arg = 0 /\ frame = <<>>

RationalPlusEq ==
  \E i \in RationalOperands :
    \E x \in {RatPlusEq(acc, i.r)} :
      /\ RatInRange(x)
      /\ acc' = x
      /\ op' = "+="
      /\ UNCHANGED <<lhs, rhs, thrown, text, shown, reread, clean,
              arg, frame>>

RationalMinusEq ==
  \E i \in RationalOperands :
    \E x \in {RatMinusEq(acc, i.r)} :
      /\ RatInRange(x)
      /\ acc' = x
      /\ op' = "-="
      /\ UNCHANGED <<lhs, rhs, thrown, text, shown, reread, clean,
              arg, frame>>

RationalMulEq ==
  \E i \in RationalOperands :
    \E x \in {RatMulEq(acc, i.r)} :
      /\ RatInRange(x)
      /\ acc' = x
      /\ op' = "*="
      /\ UNCHANGED <<lhs, rhs, thrown, text, shown, reread, clean,
              arg, frame>>

\* operator/= has no guard: a zero-valued right operand runs the same code.
RationalDivEq ==
  \E i \in RationalOperands :
    \E x \in {RatDivEq(acc, i.r)} :
      /\ RatInRange(x)
      /\ acc' = x
      /\ op' = "/="
      /\ clean' = (clean /\ ~RatIsZero(i.r))
      /\ UNCHANGED <<lhs, rhs, thrown, text, shown, reread,
              arg, frame>>

RationalNegate ==
  /\ acc' = RatNeg(acc)
  /\ op' = "neg"
  /\ UNCHANGED <<lhs, rhs, thrown, text, shown, reread, clean,
              arg, frame>>

NextRational ==
  \/ RationalPlusEq \/ RationalMinusEq \/ RationalMulEq \/ RationalDivEq
  \/ RationalNegate

SpecRational == InitRational /\ [][NextRational]_vars

C7_DenominatorNotZero == Magnitude(acc.den.digits) # 0

\* ---- SpecText: parse a text, render the value, parse the rendering -----

\* Characters per text.
MaxTextLen == 4

Alphabet == {"0", "1", "5", "9", "+", "-", "x"}

Texts == UNION {[1..n -> Alphabet] : n \in 0..MaxTextLen}

InitText ==
  /\ op = "init"
  /\ text \in Texts
  /\ acc = BigIntegerDefault /\ reread = BigIntegerDefault
  /\ shown = <<>>
  /\ lhs = BigIntegerDefault /\ rhs = BigIntegerDefault
  /\ thrown = "none" /\ clean = TRUE
  /\ arg = 0 /\ frame = <<>>

Parse ==
  /\ op = "init"
  /\ acc' = BigIntegerString(text)
  /\ op' = "parse"
  /\ UNCHANGED <<lhs, rhs, thrown, text, shown, reread, clean,
              arg, frame>>

Render ==
  /\ op = "parse"
  /\ shown' = toString(acc)
  /\ op' = "render"
  /\ UNCHANGED <<lhs, rhs, acc, thrown, text, reread, clean,
              arg, frame>>

Reparse ==
  /\ op = "render"
  /\ reread' = BigIntegerString(shown)
  /\ op' = "reparse"
  /\ UNCHANGED <<lhs, rhs, acc, thrown, text, shown, clean,
              arg, frame>>

NextText == Parse \/ Render \/ Reparse

SpecText == InitText /\ [][NextText]_vars

IsDigitChar(c) == c \in {"0", "1", "2", "3", "4", "5", "6", "7", "8", "9"}

\* [+-]?[0-9]+
WellFormed(s) ==
  /\ Len(s) >= 1
  /\ LET body == IF s[1] \in {"+", "-"} THEN Tail(s) ELSE s
     IN Len(body) >= 1 /\ \A k \in 1..Len(body) : IsDigitChar(body[k])

\* "0", or an optional '-' and digits that do not start with '0'.
CanonicalText(s) ==
  \/ s = <<"0">>
  \/ /\ WellFormed(s)
     /\ s[1] # "+"
     /\ LET body == IF s[1] = "-" THEN Tail(s) ELSE s
        IN body[1] # "0"

\* C8: a text that is not an optional sign followed by one or more digits
\* parses to the canonical zero.
C8_MalformedIsZero ==
  (op = "parse" /\ ~WellFormed(text)) => acc = BigInt(<<0>>, FALSE)

\* C9: parsing the rendering of a canonical value gives the value back, and
\* rendering the parse of a canonical text gives the text back.
C9_RoundTrip ==
  /\ (op = "reparse" /\ Canonical(acc)) => OpEq(reread, acc)
  /\ (op \in {"render", "reparse"} /\ CanonicalText(text)) => shown = text

\* A negative value of two limbs whose low limb needs zero padding.
C9_Witness ==
  /\ op = "reparse" /\ CanonicalText(text) /\ acc.neg
  /\ Len(acc.digits) = 2 /\ acc.digits[1] * 10 < CELL_BASE
  /\ shown = text /\ reread = acc

\* ---- SpecRationalBinary: one binary operator on a pair of Rationals ----

\* Numerators and denominators handed to Rational(n, d): one and two limbs,
\* both signs, pairs with and without a common factor.
PairNumerators ==
  {-(CELL_BASE + 1), -3, -2, -1, 0, 1, 2, 3, 5,
   CELL_BASE + (CELL_BASE \div 2)}

PairDenominators == {1, 2, 3, 4, CELL_BASE}

\* Normalized Rationals, built as the program builds them.
NormalizedRationals ==
  {RationalPair(Big(n), Big(d)) : n \in PairNumerators,
                                  d \in PairDenominators}

InitRationalBinary ==
  /\ op = "init"
  /\ lhs \in NormalizedRationals
  /\ rhs \in NormalizedRationals
  /\ acc = lhs
  /\ thrown = "none"
  /\ text = <<>> /\ shown = <<>> /\ reread = BigIntegerDefault
  /\ clean = TRUE
  /\ arg = 0 /\ frame = <<>>

RationalAdd ==
  /\ op = "init"
  /\ acc' = RatPlus(lhs, rhs)
  /\ op' = "+"
  /\ UNCHANGED <<lhs, rhs, thrown, text, shown, reread, clean,
                 arg, frame>>

RationalSubtract ==
  /\ op = "init"
  /\ acc' = RatMinus(lhs, rhs)
  /\ op' = "-"
  /\ UNCHANGED <<lhs, rhs, thrown, text, shown, reread, clean,
                 arg, frame>>

RationalMultiply ==
  /\ op = "init"
  /\ acc' = RatMul(lhs, rhs)
  /\ op' = "*"
  /\ UNCHANGED <<lhs, rhs, thrown, text, shown, reread, clean,
                 arg, frame>>

\* operator/ has no guard: a zero right operand runs the same code.
RationalDivide ==
  /\ op = "init"
  /\ acc' = RatDiv(lhs, rhs)
  /\ op' = "/"
  /\ UNCHANGED <<lhs, rhs, thrown, text, shown, reread, clean,
                 arg, frame>>

\* acc.toString(), once, on the result of an operator.
RationalRender ==
  /\ op # "init"
  /\ shown = <<>>
  /\ shown' = RatToString(acc)
  /\ UNCHANGED <<op, lhs, rhs, acc, thrown, text, reread, clean,
                 arg, frame>>

NextRationalBinary ==
  \/ RationalAdd \/ RationalSubtract \/ RationalMultiply
  \/ RationalDivide \/ RationalRender

SpecRationalBinary == InitRationalBinary /\ [][NextRationalBinary]_vars

\* r holds the fraction p/q (q # 0) in normalized form: positive
\* denominator, lowest terms, canonical numerator and denominator.
HoldsNormalized(r, p, q) ==
  LET g == IntGcd(Abs(p), Abs(q))
  IN /\ Canonical(r.num) /\ Canonical(r.den)
     /\ Value(r.num) = (IF q < 0 THEN -p ELSE p) \div g
     /\ Value(r.den) = Abs(q) \div g

\* "n" for n/1, "n/d" otherwise.
FractionText(r) ==
  IF Value(r.den) = 1 THEN Literal(Value(r.num))
  ELSE Literal(Value(r.num)) \o <<"/">> \o Literal(Value(r.den))

\* C17: for normalized x = a/b and y = c/d the operators +, -, * and (for
\* y # 0) / hold the normalized form of (a*d + c*b)/(b*d),
\* (a*d - c*b)/(b*d), (a*c)/(b*d) and (a*d)/(b*c), and toString renders the
\* result as "n" when the denominator is 1 and as "n/d" otherwise.
C17_ExactRational ==
  LET a == Value(lhs.num)
      b == Value(lhs.den)
      c == Value(rhs.num)
      d == Value(rhs.den)
  IN /\ (op = "+") => HoldsNormalized(acc, a * d + c * b, b * d)
     /\ (op = "-") => HoldsNormalized(acc, a * d - c * b, b * d)
     /\ (op = "*") => HoldsNormalized(acc, a * c, b * d)
     /\ (op = "/" /\ c # 0) => HoldsNormalized(acc, a * d, b * c)
     /\ (shown # <<>> /\ ~(op = "/" /\ c = 0)) => shown = FractionText(acc)

\* Rational(-1, 2) + Rational(1, 2) is stored as 0/1 and renders as "0".
C17_Witness ==
  /\ op = "+"
  /\ lhs = RationalPair(Big(-1), Big(2)) /\ rhs = RationalPair(Big(1), Big(2))
  /\ acc = Rat(BigInt(<<0>>, FALSE), BigInt(<<1>>, FALSE))
  /\ shown = <<"0">>

\* ---- SpecRationalCompare: one comparison on a pair of Rationals --------

InitRationalCompare ==
  /\ op = "init"
  /\ lhs \in NormalizedRationals
  /\ rhs \in NormalizedRationals
  /\ acc = FALSE
  /\ thrown = "none"
  /\ text = <<>> /\ shown = <<>> /\ reread = BigIntegerDefault
  /\ clean = TRUE
  /\ arg = 0 /\ frame = <<>>

RationalEqual ==
  /\ op = "init"
  /\ acc' = RatEq(lhs, rhs)
  /\ op' = "=="
  /\ UNCHANGED <<lhs, rhs, thrown, text, shown, reread, clean,
                 arg, frame>>

RationalNotEqual ==
  /\ op = "init"
  /\ acc' = RatNe(lhs, rhs)
  /\ op' = "!="
  /\ UNCHANGED <<lhs, rhs, thrown, text, shown, reread, clean,
                 arg, frame>>

RationalLess ==
  /\ op = "init"
  /\ acc' = RatLess(lhs, rhs)
  /\ op' = "<"
  /\ UNCHANGED <<lhs, rhs, thrown, text, shown, reread, clean,
                 arg, frame>>

RationalLessEq ==
  /\ op = "init"
  /\ acc' = RatLessEq(lhs, rhs)
  /\ op' = "<="
  /\ UNCHANGED <<lhs, rhs, thrown, text, shown, reread, clean,
                 arg, frame>>

RationalGreater ==
  /\ op = "init"
  /\ acc' = RatGreater(lhs, rhs)
  /\ op' = ">"
  /\ UNCHANGED <<lhs, rhs, thrown, text, shown, reread, clean,
                 arg, frame>>

RationalGreaterEq ==
  /\ op = "init"
  /\ acc' = RatGreaterEq(lhs, rhs)
  /\ op' = ">="
  /\ UNCHANGED <<lhs, rhs, thrown, text, shown, reread, clean,
                 arg, frame>>

NextRationalCompare ==
  \/ RationalEqual \/ RationalNotEqual \/ RationalLess \/ RationalLessEq
  \/ RationalGreater \/ RationalGreaterEq

SpecRationalCompare == InitRationalCompare /\ [][NextRationalCompare]_vars

\* C18: for normalized x = a/b and y = c/d, x < y is a*d < c*b, the order
\* of the two fractions since b and d are positive, and the other order
\* operators follow it; x == y holds exactly when x and y have the same
\* numerator and the same denominator.
C18_RationalOrder ==
  LET a == Value(lhs.num)
      b == Value(lhs.den)
      c == Value(rhs.num)
      d == Value(rhs.den)
  IN /\ b > 0 /\ d > 0
     /\ (op = "<") => (acc = (a * d < c * b))
     /\ (op = ">") => (acc = (a * d > c * b))
     /\ (op = "<=") => (acc = (a * d <= c * b))
     /\ (op = ">=") => (acc = (a * d >= c * b))
     /\ (op = "==") => (acc = (a = c /\ b = d))
     /\ (op = "!=") => (acc = ~(a = c /\ b = d))

\* Two negative fractions whose numerators compare the other way round.
C18_Witness ==
  /\ op = "<" /\ acc = TRUE
  /\ lhs.num.neg /\ rhs.num.neg
  /\ Value(lhs.num) > Value(rhs.num)
  /\ Value(lhs.den) # Value(rhs.den)

\* ---- SpecDecimal: asDecimal on a Rational and a precision --------------

\* Fractional digits asked for.
MaxPrecision == 4

DecimalNumerators ==
  {-(CELL_BASE + 1), -7, -2, -1, 0, 1, 2, 5, 22,
   CELL_BASE + (CELL_BASE \div 2), 3 * CELL_BASE + 1}

DecimalDenominators == {1, 2, 3, 7, 8, CELL_BASE, CELL_BASE + 1}

InitDecimal ==
  /\ op = "init"
  /\ lhs \in {RationalPair(Big(n), Big(d)) : n \in DecimalNumerators,
                                             d \in DecimalDenominators}
  /\ arg \in 0..MaxPrecision
  /\ rhs = RationalDefault /\ acc = RationalDefault
  /\ thrown = "none"
  /\ text = <<>> /\ shown = <<>> /\ reread = BigIntegerDefault
  /\ clean = TRUE
  /\ frame = <<>>

\* lhs.asDecimal(arg)
Decimal ==
  /\ op = "init"
  /\ shown' = asDecimal(lhs, arg)
  /\ op' = "asDecimal"
  /\ UNCHANGED <<lhs, rhs, acc, thrown, text, reread, clean,
                 arg, frame>>

NextDecimal == Decimal

SpecDecimal == InitDecimal /\ [][NextDecimal]_vars

\* The k-th fractional decimal digit of m/n (m >= 0, n > 0).
FractionDigit(m, n, k) == ((m * Pow10(k)) \div n) % 10

\* The decimal expansion of a/b (b > 0) truncated after p fractional digits:
\* '-' when a < 0, the digits of floor(|a|/b), and for p > 0 a '.' and the
\* first p fractional digits of |a|/b.
TruncatedDecimal(a, b, p) ==
  (IF a < 0 THEN <<"-">> ELSE <<>>)
    \o to_string(Abs(a) \div b)
    \o (IF p = 0 THEN <<>>
        ELSE <<".">> \o [k \in 1..p |->
                           DigitChars[FractionDigit(Abs(a), b, k) + 1]])

\* C19: asDecimal(p) of a normalized Rational r is one '-' exactly when r is
\* negative (also before a zero integer part), the digits of floor(|r|), and
\* for p > 0 a '.' and exactly p fractional digits of |r|, truncated and not
\* rounded; for p = 0 there is no '.'.
C19_TruncatedDecimal ==
  (op = "asDecimal") =>
    shown = TruncatedDecimal(Value(lhs.num), Value(lhs.den), arg)

\* Rational(-2, 3).asDecimal(4) is "-0.6666": the lone '-' and no rounding.
C19_Witness ==
  /\ op = "asDecimal"
  /\ lhs = RationalPair(Big(-2), Big(3)) /\ arg = 4
  /\ shown = <<"-", "0", ".", "6", "6", "6", "6">>

\* ---- SpecDivision: operator/= statement by statement -------------------

\* op is the position in operator/=: "/=:loop" at the head of the for loop,
\* "/=:subtract" before "curValue -= b * val", "/=" after the return.
\* frame holds the locals result_negative, a, b, result, curValue, iter, val.

InitDivision ==
  /\ op = "init"
  /\ lhs \in Operands
  /\ rhs \in Operands
  /\ acc = lhs
  /\ thrown = "none"
  /\ text = <<>> /\ shown = <<>> /\ reread = BigIntegerDefault
  /\ clean = TRUE
  /\ arg = 0 /\ frame = <<>>

\* Entry up to the loop: the two early returns, or the locals.
DivStart ==
  /\ op = "init"
  /\ LET result_negative == acc.neg # rhs.neg
         a == abs(acc)
         b == abs(rhs)
     IN IF OpEq(a, b)
        THEN /\ acc' = BigInt(<<1>>, result_negative)
             /\ op' = "/="
             /\ frame' = frame
        ELSE IF OpLess(a, b)
        THEN /\ acc' = BigIntegerInt(0)
             /\ op' = "/="
             /\ frame' = frame
        ELSE /\ frame' =
                  [result_negative |-> result_negative, a |-> a, b |-> b,
                   result |->
                     BigInt(Resize(<<0>>, Len(a.digits) - Len(b.digits) + 1),
                            result_negative),
                   curValue |-> BigIntegerDefault,
                   iter |-> Len(a.digits) - 1,
                   val |-> 0]
             /\ op' = "/=:loop"
             /\ acc' = acc
  /\ UNCHANGED <<lhs, rhs, thrown, text, shown, reread, clean, arg>>

\* One iteration up to the store of the quotient limb: shift the next limb
\* of a into curValue, search val, store it in result.
DivSearch ==
  /\ op = "/=:loop"
  /\ frame.iter >= 0
  /\ LET cv == NextCurValue(frame.curValue, frame.a.digits[frame.iter + 1])
         val == QuotientLimb(frame.b, cv, 0, CELL_BASE - 1, 0)
         result ==
           IF frame.iter < Len(frame.result.digits)
           THEN BigInt([frame.result.digits EXCEPT ![frame.iter + 1] = val],
                       frame.result.neg)
           ELSE BigInt(Append(frame.result.digits, val), frame.result.neg)
     IN frame' = [frame EXCEPT !.curValue = cv, !.val = val,
                               !.result = result]
  /\ op' = "/=:subtract"
  /\ UNCHANGED <<lhs, rhs, acc, thrown, text, shown, reread, clean, arg>>

\* curValue -= b * val; --iter
DivSubtract ==
  /\ op = "/=:subtract"
  /\ frame' =
       [frame EXCEPT
          !.curValue = OpMinusEq(frame.curValue,
                                 OpMul(frame.b, BigIntegerInt(frame.val))),
          !.iter = frame.iter - 1]
  /\ op' = "/=:loop"
  /\ UNCHANGED <<lhs, rhs, acc, thrown, text, shown, reread, clean, arg>>

\* The loop has ended: result.remove_leading_zeroes(); *this = result.
DivFinish ==
  /\ op = "/=:loop"
  /\ frame.iter < 0
  /\ acc' = remove_leading_zeroes(frame.result)
  /\ op' = "/="
  /\ frame' = <<>>
  /\ UNCHANGED <<lhs, rhs, thrown, text, shown, reread, clean, arg>>

NextDivision == DivStart \/ DivSearch \/ DivSubtract \/ DivFinish

SpecDivision == InitDivision /\ [][NextDivision]_vars

\* The statements together are operator/=.
DivisionStepsAgree == (op = "/=") => acc = OpDivEq(lhs, rhs)

\* C20: in the loop of operator/= with b # 0 (the loop runs when
\* |a| > |b|), the limb found by the binary search is the largest q in
\* [0, base) with |b|*q <= running remainder; after the subtraction the
\* running remainder is canonical and in [0, |b|); after the last step it
\* is |a| mod |b|.
C20_DivisionStep ==
  (op \in {"/=:loop", "/=:subtract"} /\ ~is_zero(rhs)) =>
    LET B == Magnitude(frame.b.digits)
        R == Value(frame.curValue)
    IN /\ (op = "/=:subtract") =>
            /\ frame.val \in 0..(CELL_BASE - 1)
            /\ B * frame.val <= R
            /\ \A q \in 0..(CELL_BASE - 1) : (B * q <= R) => (q <= frame.val)
       /\ (op = "/=:loop") =>
            /\ Canonical(frame.curValue)
            /\ R \in 0..(B - 1)
       /\ (op = "/=:loop" /\ frame.iter < 0) =>
            R = Abs(Value(lhs)) % B

\* The last step of three limbs by two: a running remainder of three
\* limbs, a quotient limb inside the range and a remainder left over.
C20_Witness ==
  /\ op = "/=:subtract" /\ ~is_zero(rhs)
  /\ frame.iter = 0
  /\ Len(frame.a.digits) = 3 /\ Len(frame.b.digits) = 2
  /\ Len(frame.curValue.digits) = 3
  /\ frame.val > 1 /\ frame.val < CELL_BASE - 1
  /\ Magnitude(frame.b.digits) * frame.val < Value(frame.curValue)

\* ---- SpecGcd: Rational::gcd statement by statement ---------------------

\* op is the position in gcd: "gcd:loop" at the head of the while loop,
\* "gcd" after the return.  frame holds the parameters a and b.

\* Arguments of gcd: zero, units, consecutive Fibonacci numbers (the longest
\* runs of the loop), multiples and neighbours of the radix, both signs.
GcdMagnitudes ==
  {0, 1, 2, 12, 21, 34, 55, CELL_BASE - 1, CELL_BASE,
   CELL_BASE + (CELL_BASE \div 2), 18 * CELL_BASE, CELL_BASE * CELL_BASE,
   CELL_BASE * CELL_BASE + 1}

GcdOperands ==
  {BigIntegerString(Literal(n)) : n \in GcdMagnitudes}
    \cup {BigIntegerString(Literal(-n)) : n \in GcdMagnitudes}

InitGcd ==
  /\ op = "init"
  /\ lhs \in GcdOperands
  /\ rhs \in GcdOperands
  /\ acc = BigIntegerDefault
  /\ thrown = "none"
  /\ text = <<>> /\ shown = <<>> /\ reread = BigIntegerDefault
  /\ clean = TRUE
  /\ arg = 0 /\ frame = <<>>

\* a = a.abs(); b = b.abs();
GcdStart ==
  /\ op = "init"
  /\ frame' = [a |-> abs(lhs), b |-> abs(rhs)]
  /\ op' = "gcd:loop"
  /\ UNCHANGED <<lhs, rhs, acc, thrown, text, shown, reread, clean, arg>>

\* The loop body with the swap left out: a %= b.
GcdIteration_NoSwap(f) == [a |-> OpModEq(f.a, f.b), b |-> f.b]

\* The loop body: a %= b; std::swap(a, b).
GcdIteration(f) == [a |-> f.b, b |-> OpModEq(f.a, f.b)]

GcdStep ==
  /\ op = "gcd:loop"
  /\ OpNe(frame.b, BigIntegerInt(0))
  /\ frame' = GcdIteration(frame)
  /\ UNCHANGED <<op, lhs, rhs, acc, thrown, text, shown, reread, clean,
                 arg>>

\* return a
GcdReturn ==
  /\ op = "gcd:loop"
  /\ ~OpNe(frame.b, BigIntegerInt(0))
  /\ acc' = frame.a
  /\ op' = "gcd"
  /\ frame' = <<>>
  /\ UNCHANGED <<lhs, rhs, thrown, text, shown, reread, clean, arg>>

NextGcd == GcdStart \/ GcdStep \/ GcdReturn

SpecGcd == InitGcd /\ [][NextGcd]_vars

\* The loop condition "b != 0".
GcdLoopCondition == op = "gcd:loop" /\ OpNe(frame.b, BigIntegerInt(0))

\* WF_vars(GcdStep), with ENABLED <<GcdStep>>_vars written as the loop
\* condition: the body is defined, and changes b, whenever it holds.
FairGcdStep == ([]<>~GcdLoopCondition) \/ ([]<><<GcdStep>>_vars)

\* A call runs on, statement after statement: gcd is sequential code.
LiveGcd ==
  SpecGcd /\ WF_vars(GcdStart) /\ FairGcdStep /\ WF_vars(GcdReturn)

\* The statements together are gcd.
GcdStepsAgree == (op = "gcd") => acc = gcd(lhs, rhs)

\* C22: gcd returns on every pair of canonical arguments; what it returns
\* is canonical, non-negative and the greatest common divisor of the two
\* magnitudes (|d| for (0, d), |n| for (n, 0), 0 for (0, 0)); every
\* iteration makes b strictly smaller.
C22_GcdTerminates ==
  /\ <>(op = "gcd")
  /\ [](op = "gcd" =>
          /\ Canonical(acc) /\ ~acc.neg
          /\ Value(acc) = IntGcd(Abs(Value(lhs)), Abs(Value(rhs)))
          /\ (Value(acc) # 0 =>
                (Value(lhs) % Value(acc) = 0 /\ Value(rhs) % Value(acc) = 0))
          /\ (Value(lhs) = 0 => Value(acc) = Abs(Value(rhs)))
          /\ (Value(rhs) = 0 => Value(acc) = Abs(Value(lhs))))
  /\ [][(op = "gcd:loop" /\ op' = "gcd:loop") =>
          (Canonical(frame'.b) /\ ~frame'.b.neg
             /\ Value(frame'.b) < Value(frame.b))]_vars

\* A negative argument and a divisor of two limbs.
C22_Witness ==
  /\ op = "gcd"
  /\ lhs.neg /\ Len(rhs.digits) = 3
  /\ Len(acc.digits) = 2

\* ---- SpecDivisionSteps: operator/= and operator%=, loop by loop ---------

\* op is the position: "div:loop" at the head of the for loop of operator/=,
\* "div:search" at the head of the while loop of the binary search,
\* "div:store" after it, "%=:subtract" in operator%= after the quotient has
\* been returned, "/=" and "%=" after the return of the operator called.
\* frame holds the locals of operator/=, the operator called (call) and two
\* counters: rounds, the iterations of the for loop begun so far, and
\* probes, the iterations of the running binary search.

\* Dividends and divisors: zero, one to three limbs, both signs.
StepMagnitudes ==
  {0, 1, 7, CELL_BASE - 1, CELL_BASE, 2 * CELL_BASE + 1,
   CELL_BASE * CELL_BASE - 1, CELL_BASE * CELL_BASE,
   3 * CELL_BASE * CELL_BASE + 2 * CELL_BASE + 99}

StepOperands ==
  {BigIntegerString(Literal(n)) : n \in StepMagnitudes}
    \cup {BigIntegerString(Literal(-n)) : n \in StepMagnitudes}

InitDivisionSteps ==
  /\ op = "init"
  /\ lhs \in StepOperands
  /\ rhs \in StepOperands
  /\ acc = lhs
  /\ thrown = "none"
  /\ text = <<>> /\ shown = <<>> /\ reread = BigIntegerDefault
  /\ clean = TRUE
  /\ arg = 0 /\ frame = <<>>

\* The return of operator/= with quotient q: to the caller of operator/=, or
\* into "div_res" of operator%=, whose receiver x is still untouched.
Returned(call, q, x) ==
  IF call = "/="
  THEN [op |-> "/=", acc |-> q, frame |-> <<>>]
  ELSE [op |-> "%=:subtract", acc |-> x,
        frame |-> [call |-> call, div_res |-> q]]

\* operator/= from its entry to the head of the for loop, on receiver x.
DivisionEntry(call, x, other) ==
  LET result_negative == x.neg # other.neg
      a == abs(x)
      b == abs(other)
  IN IF OpEq(a, b) THEN Returned(call, BigInt(<<1>>, result_negative), x)
     ELSE IF OpLess(a, b) THEN Returned(call, BigIntegerInt(0), x)
     ELSE [op |-> "div:loop", acc |-> x,
           frame |->
             [call |-> call, result_negative |-> result_negative,
              a |-> a, b |-> b,
              result |->
                BigInt(Resize(<<0>>, Len(a.digits) - Len(b.digits) + 1),
                       result_negative),
              curValue |-> BigIntegerDefault,
              iter |-> Len(a.digits) - 1,
              val |-> 0, left |-> 0, right |-> 0,
              rounds |-> 0, probes |-> 0]]

\* acc /= rhs
DivCall ==
  /\ op = "init"
  /\ LET e == DivisionEntry("/=", acc, rhs)
     IN op' = e.op /\ acc' = e.acc /\ frame' = e.frame
  /\ UNCHANGED <<lhs, rhs, thrown, text, shown, reread, clean, arg>>

\* acc %= rhs: BigInteger div_res = *this / other runs operator/= on a copy.
ModCall ==
  /\ op = "init"
  /\ LET e == DivisionEntry("%=", acc, rhs)
     IN op' = e.op /\ acc' = e.acc /\ frame' = e.frame
  /\ UNCHANGED <<lhs, rhs, thrown, text, shown, reread, clean, arg>>

\* The for loop goes round: the next limb is shifted into curValue and the
\* binary search is set up.
DivRound ==
  /\ op = "div:loop"
  /\ frame.iter >= 0
  /\ frame' =
       [frame EXCEPT
          !.curValue = NextCurValue(frame.curValue,
                                    frame.a.digits[frame.iter + 1]),
          !.val = 0, !.left = 0, !.right = CELL_BASE - 1,
          !.rounds = frame.rounds + 1, !.probes = 0]
  /\ op' = "div:search"
  /\ UNCHANGED <<lhs, rhs, acc, thrown, text, shown, reread, clean, arg>>

\* The body of the while loop with "left = mid" for "left = mid + 1".
Probe_NoAdvance(f) ==
  LET mid == (f.left + f.right) \div 2
      cur == OpMul(f.b, BigIntegerInt(mid))
  IN IF OpLessEq(cur, f.curValue)
     THEN [f EXCEPT !.val = mid, !.left = mid, !.probes = f.probes + 1]
     ELSE [f EXCEPT !.right = mid - 1, !.probes = f.probes + 1]

\* The body of the while loop of the binary search.
Probe(f) ==
  LET mid == (f.left + f.right) \div 2
      cur == OpMul(f.b, BigIntegerInt(mid))
  IN IF OpLessEq(cur, f.curValue)
     THEN [f EXCEPT !.val = mid, !.left = mid + 1, !.probes = f.probes + 1]
     ELSE [f EXCEPT !.right = mid - 1, !.probes = f.probes + 1]

DivProbe ==
  /\ op = "div:search"
  /\ frame.left <= frame.right
  /\ frame' = Probe(frame)
  /\ UNCHANGED <<op, lhs, rhs, acc, thrown, text, shown, reread, clean,
                 arg>>

\* The search has ended.
DivFound ==
  /\ op = "div:search"
  /\ frame.left > frame.right
  /\ op' = "div:store"
  /\ UNCHANGED <<lhs, rhs, acc, thrown, text, shown, reread, clean,
                 arg, frame>>

\* The quotient limb is stored, curValue -= b * val, --iter.
DivStore ==
  /\ op = "div:store"
  /\ frame' =
       [frame EXCEPT
          !.result =
            IF frame.iter < Len(frame.result.digits)
            THEN BigInt([frame.result.digits EXCEPT
                           ![frame.iter + 1] = frame.val],
                        frame.result.neg)
            ELSE BigInt(Append(frame.result.digits, frame.val),
                        frame.result.neg),
          !.curValue = OpMinusEq(frame.curValue,
                                 OpMul(frame.b, BigIntegerInt(frame.val))),
          !.iter = frame.iter - 1]
  /\ op' = "div:loop"
  /\ UNCHANGED <<lhs, rhs, acc, thrown, text, shown, reread, clean, arg>>

\* The for loop has ended: result.remove_leading_zeroes(); *this = result.
DivReturn ==
  /\ op = "div:loop"
  /\ frame.iter < 0
  /\ LET e == Returned(frame.call, remove_leading_zeroes(frame.result), acc)
     IN op' = e.op /\ acc' = e.acc /\ frame' = e.frame
  /\ UNCHANGED <<lhs, rhs, thrown, text, shown, reread, clean, arg>>

\* *this -= div_res * other; return *this
ModSubtract ==
  /\ op = "%=:subtract"
  /\ acc' = OpMinusEq(acc, OpMul(frame.div_res, rhs))
  /\ op' = "%="
  /\ frame' = <<>>
  /\ UNCHANGED <<lhs, rhs, thrown, text, shown, reread, clean, arg>>

NextDivisionSteps ==
  \/ DivCall \/ ModCall \/ DivRound \/ DivProbe \/ DivFound \/ DivStore
  \/ DivReturn \/ ModSubtract

SpecDivisionSteps == InitDivisionSteps /\ [][NextDivisionSteps]_vars

\* The operator called has not returned yet.
DivisionRunning == op \notin {"/=", "%="}

\* WF_vars(NextDivisionSteps), with ENABLED <<NextDivisionSteps>>_vars
\* written as DivisionRunning: at every position before the return exactly
\* one statement is defined, and it moves the position or a counter.
LiveDivisionSteps ==
  SpecDivisionSteps
    /\ (([]<>~DivisionRunning) \/ ([]<><<NextDivisionSteps>>_vars))

\* The statements together are the operators.
DivisionStepsReturn ==
  /\ (op = "/=") => acc = OpDivEq(lhs, rhs)
  /\ (op = "%=") => acc = OpModEq(lhs, rhs)

\* The least k with 2^k >= n.
RECURSIVE CeilLog2(_)
CeilLog2(n) == IF n <= 1 THEN 0 ELSE 1 + CeilLog2((n + 1) \div 2)

\* C23: operator/= and operator%= return on every pair of canonical
\* operands, a zero divisor included: no binary search takes more than
\* ceil(log2(base)) iterations, and when the for loop ends it has gone
\* round exactly once per limb of the dividend.
C23_DivisionTerminates ==
  /\ <>(~DivisionRunning)
  /\ [](op \in {"div:search", "div:store"} =>
          frame.probes <= CeilLog2(CELL_BASE))
  /\ [](op \in {"div:loop", "div:search", "div:store"} =>
          frame.rounds <= Len(frame.a.digits))
  /\ []((op = "div:loop" /\ frame.iter < 0) =>
          frame.rounds = Len(frame.a.digits))

\* A remainder by zero has returned, the dividend of three limbs.
C23_Witness ==
  /\ op = "%="
  /\ is_zero(rhs) /\ Len(lhs.digits) = 3 /\ lhs.neg

\* ---- SpecRationalSelf: a op= a on one Rational --------------------------

\* lhs keeps an independent copy of the receiver.
InitRationalSelf ==
  /\ op = "init"
  /\ acc \in NormalizedRationals
  /\ lhs = acc /\ rhs = acc
  /\ thrown = "none"
  /\ text = <<>> /\ shown = <<>> /\ reread = BigIntegerDefault
  /\ clean = TRUE
  /\ arg = 0 /\ frame = <<>>

\* acc += acc
SelfPlusEq ==
  /\ op = "init"
  /\ acc' = RatPlusEqSelf(acc)
  /\ op' = "+="
  /\ UNCHANGED <<lhs, rhs, thrown, text, shown, reread, clean,
                 arg, frame>>

\* acc -= acc
SelfMinusEq ==
  /\ op = "init"
  /\ acc' = RatMinusEqSelf(acc)
  /\ op' = "-="
  /\ UNCHANGED <<lhs, rhs, thrown, text, shown, reread, clean,
                 arg, frame>>

\* acc *= acc
SelfMulEq ==
  /\ op = "init"
  /\ acc' = RatMulEqSelf(acc)
  /\ op' = "*="
  /\ UNCHANGED <<lhs, rhs, thrown, text, shown, reread, clean,
                 arg, frame>>

\* acc /= acc
SelfDivEq ==
  /\ op = "init"
  /\ acc' = RatDivEqSelf(acc)
  /\ op' = "/="
  /\ UNCHANGED <<lhs, rhs, thrown, text, shown, reread, clean,
                 arg, frame>>

NextRationalSelf == SelfPlusEq \/ SelfMinusEq \/ SelfMulEq \/ SelfDivEq

SpecRationalSelf == InitRationalSelf /\ [][NextRationalSelf]_vars

\* C24: a op= a leaves what the non-mutating operator gives on an
\* independent copy: 2a after a += a, 0 after a -= a, a*a after a *= a and,
\* for a # 0, exactly 1 (stored as 1/1) after a /= a.
C24_SelfAssignment ==
  /\ (op = "+=") => acc = RatPlus(lhs, lhs)
  /\ (op = "-=") => (acc = RatMinus(lhs, lhs) /\ acc = RationalDefault)
  /\ (op = "*=") => acc = RatMul(lhs, lhs)
  /\ (op = "/=" /\ ~RatIsZero(lhs)) =>
       (acc = RatDiv(lhs, lhs)
          /\ acc = Rat(BigInt(<<1>>, FALSE), BigInt(<<1>>, FALSE)))

\* The same without the division.
SelfAssignmentButDivision ==
  /\ (op = "+=") => acc = RatPlus(lhs, lhs)
  /\ (op = "-=") => (acc = RatMinus(lhs, lhs) /\ acc = RationalDefault)
  /\ (op = "*=") => acc = RatMul(lhs, lhs)

\* What a /= a leaves for a = n/d, n # 0: the fraction 1/d.
SelfDivisionLeaves ==
  (op = "/=" /\ ~RatIsZero(lhs)) =>
    acc = Rat(BigInt(<<1>>, FALSE), lhs.den)

\* ---- CircularBuffer (circular_buffer.h) -----------------------------------

\* Largest capacity a buffer is constructed with, and the largest value
\* pushed.
MaxCapacity == 3
MaxValue == 2

\* A slot of the byte storage that holds no constructed T.
Raw == "raw"

\* The fields of a CircularBuffer; buffer maps a slot number to the T
\* constructed there.  Slot arithmetic is on size_t: head_ - 1 + capacity_
\* wraps to capacity_ - 1 for head_ = 0, as the integer expression does
\* under % capacity_.
CircularBuffer(capacity) ==
  [capacity |-> capacity, size |-> 0, head |-> 0, tail |-> 0,
   buffer |-> [i \in 0..(capacity - 1) |-> Raw]]

size(b) == b.size

empty(b) == b.size = 0

full(b) == b.size = b.capacity

\* operator[]
OpIndex(b, index) == b.buffer[(b.head + index) % b.capacity]

\* push_front whose full branch leaves tail_ where it was.
push_front_KeepTail(b, value) ==
  LET new_head == (b.head - 1 + b.capacity) % b.capacity
  IN IF full(b)
       THEN [b EXCEPT !.buffer[new_head] = value, !.head = new_head]
       ELSE [b EXCEPT !.buffer[new_head] = value, !.head = new_head,
                      !.size = b.size + 1]

push_back(b, value) ==
  IF full(b)
    THEN [b EXCEPT !.buffer[b.tail] = value,
                   !.head = (b.head + 1) % b.capacity,
                   !.tail = (b.tail + 1) % b.capacity]
    ELSE [b EXCEPT !.buffer[b.tail] = value,
                   !.tail = (b.tail + 1) % b.capacity,
                   !.size = b.size + 1]

push_front(b, value) ==
  LET new_head == (b.head - 1 + b.capacity) % b.capacity
  IN IF full(b)
       THEN [b EXCEPT !.buffer[new_head] = value,
                      !.head = new_head,
                      !.tail = (b.tail - 1 + b.capacity) % b.capacity]
       ELSE [b EXCEPT !.buffer[new_head] = value,
                      !.head = new_head,
                      !.size = b.size + 1]

\* pop_back and pop_front past their empty() test: the element is
\* destroyed, its slot holds no T afterwards.
pop_back(b) ==
  LET tail == (b.tail - 1 + b.capacity) % b.capacity
  IN [b EXCEPT !.tail = tail, !.buffer[tail] = Raw, !.size = b.size - 1]

pop_front(b) ==
  [b EXCEPT !.buffer[b.head] = Raw,
            !.head = (b.head + 1) % b.capacity,
            !.size = b.size - 1]

\* iterator: raw_index_, capacity_, head_ (buffer_ is the storage of the
\* buffer it came from).
begin(b) == [raw_index |-> 0, capacity |-> b.capacity, head |-> b.head]

end(b) == [raw_index |-> b.size, capacity |-> b.capacity, head |-> b.head]

IteratorNe(it, other) == it.raw_index # other.raw_index

IteratorDeref(b, it) == b.buffer[(it.head + it.raw_index) % it.capacity]

IteratorInc(it) == [it EXCEPT !.raw_index = it.raw_index + 1]

\* const_iterator: capacity_, index_.
cbegin(b) == [index |-> b.head, capacity |-> b.capacity]

cend(b) == [index |-> b.tail, capacity |-> b.capacity]

ConstIteratorNe(it, other) == it.index # other.index

ConstIteratorDeref(b, it) == b.buffer[it.index]

ConstIteratorInc(it) == [it EXCEPT !.index = (it.index + 1) % it.capacity]

\* ---- Reference: a bounded double-ended queue ------------------------------

\* The elements of the buffer from front to back, read with operator[].
Contents(b) == [i \in 1..b.size |-> OpIndex(b, i - 1)]

DequePushBack(s, v, c) ==
  IF Len(s) = c THEN Append(Tail(s), v) ELSE Append(s, v)

DequePushFront(s, v, c) ==
  IF Len(s) = c THEN <<v>> \o SubSeq(s, 1, c - 1) ELSE <<v>> \o s

DequePopBack(s) == SubSeq(s, 1, Len(s) - 1)

DequePopFront(s) == Tail(s)

\* ---- SpecBuffer: pushes, pops and traversals of one buffer ----------------

\* frame is the buffer, lhs the buffer as it was before the last operation,
\* arg the value last pushed, rhs the iterator of the traversal under way
\* and shown the elements it has visited.
Traversing == op \in {"iterator", "const_iterator"}

InitBuffer ==
  /\ op = "init"
  /\ \E capacity \in 1..MaxCapacity : frame = CircularBuffer(capacity)
  /\ lhs = frame
  /\ rhs = <<>>
  /\ acc = <<>>
  /\ arg = 0
  /\ thrown = "none"
  /\ text = <<>> /\ shown = <<>> /\ reread = BigIntegerDefault
  /\ clean = TRUE

PushBack ==
  /\ ~Traversing
  /\ \E value \in 1..MaxValue :
       /\ frame' = push_back(frame, value)
       /\ arg' = value
  /\ lhs' = frame
  /\ op' = "push_back"
  /\ thrown' = "none"
  /\ UNCHANGED <<rhs, acc, text, shown, reread, clean>>

PushFront ==
  /\ ~Traversing
  /\ \E value \in 1..MaxValue :
       /\ frame' = push_front(frame, value)
       /\ arg' = value
  /\ lhs' = frame
  /\ op' = "push_front"
  /\ thrown' = "none"
  /\ UNCHANGED <<rhs, acc, text, shown, reread, clean>>

PopBack ==
  /\ ~Traversing
  /\ IF empty(frame)
       THEN thrown' = "out_of_range" /\ frame' = frame
       ELSE thrown' = "none" /\ frame' = pop_back(frame)
  /\ lhs' = frame
  /\ op' = "pop_back"
  /\ UNCHANGED <<rhs, acc, text, shown, reread, clean, arg>>

PopFront ==
  /\ ~Traversing
  /\ IF empty(frame)
       THEN thrown' = "out_of_range" /\ frame' = frame
       ELSE thrown' = "none" /\ frame' = pop_front(frame)
  /\ lhs' = frame
  /\ op' = "pop_front"
  /\ UNCHANGED <<rhs, acc, text, shown, reread, clean, arg>>

\* for (auto it = begin(); it != end(); ++it) visit(*it);
IterBegin ==
  /\ ~Traversing
  /\ rhs' = begin(frame)
  /\ shown' = <<>>
  /\ op' = "iterator"
  /\ thrown' = "none"
  /\ UNCHANGED <<lhs, acc, text, reread, clean, arg, frame>>

IterStep ==
  /\ op = "iterator"
  /\ IteratorNe(rhs, end(frame))
  /\ shown' = Append(shown, IteratorDeref(frame, rhs))
  /\ rhs' = IteratorInc(rhs)
  /\ UNCHANGED <<op, lhs, acc, thrown, text, reread, clean, arg, frame>>

IterEnd ==
  /\ op = "iterator"
  /\ ~IteratorNe(rhs, end(frame))
  /\ op' = "iterator:end"
  /\ UNCHANGED <<lhs, rhs, acc, thrown, text, shown, reread, clean,
                 arg, frame>>

\* The same loop over a const buffer, or from cbegin() to cend().
ConstIterBegin ==
  /\ ~Traversing
  /\ rhs' = cbegin(frame)
  /\ shown' = <<>>
  /\ op' = "const_iterator"
  /\ thrown' = "none"
  /\ UNCHANGED <<lhs, acc, text, reread, clean, arg, frame>>

ConstIterStep ==
  /\ op = "const_iterator"
  /\ ConstIteratorNe(rhs, cend(frame))
  /\ shown' = Append(shown, ConstIteratorDeref(frame, rhs))
  /\ rhs' = ConstIteratorInc(rhs)
  /\ UNCHANGED <<op, lhs, acc, thrown, text, reread, clean, arg, frame>>

ConstIterEnd ==
  /\ op = "const_iterator"
  /\ ~ConstIteratorNe(rhs, cend(frame))
  /\ op' = "const_iterator:end"
  /\ UNCHANGED <<lhs, rhs, acc, thrown, text, shown, reread, clean,
                 arg, frame>>

NextBuffer ==
  \/ PushBack \/ PushFront \/ PopBack \/ PopFront
  \/ IterBegin \/ IterStep \/ IterEnd
  \/ ConstIterBegin \/ ConstIterStep \/ ConstIterEnd

SpecBuffer == InitBuffer /\ [][NextBuffer]_vars

\* No element read by operator[] below size() is an unconstructed slot.
ContentsConstructed ==
  \A i \in 1..frame.size : Contents(frame)[i] \in 1..MaxValue

\* C25: after any sequence of pushes and pops on a buffer of capacity C,
\* 0 <= size <= C and tail = (head + size) mod C; what operator[] reads is
\* the reference deque after the same operation, where a push_back on a full
\* buffer evicts the front element and a push_front on a full buffer evicts
\* the back element; a pop on an empty buffer raises out_of_range and leaves
\* head, tail and size as they were.
C25_RefinesDeque ==
  /\ frame.size >= 0 /\ frame.size <= frame.capacity
  /\ frame.tail = (frame.head + frame.size) % frame.capacity
  /\ frame.capacity = lhs.capacity
  /\ ContentsConstructed
  /\ (op = "init") => frame.size = 0
  /\ (op = "push_back") =>
       Contents(frame) = DequePushBack(Contents(lhs), arg, lhs.capacity)
  /\ (op = "push_front") =>
       Contents(frame) = DequePushFront(Contents(lhs), arg, lhs.capacity)
  /\ (op = "pop_back") =>
       IF lhs.size = 0
         THEN thrown = "out_of_range" /\ frame = lhs
         ELSE thrown = "none" /\ Contents(frame) = DequePopBack(Contents(lhs))
  /\ (op = "pop_front") =>
       IF lhs.size = 0
         THEN thrown = "out_of_range" /\ frame = lhs
         ELSE thrown = "none" /\ Contents(frame) = DequePopFront(Contents(lhs))

\* A push_front on a full buffer of capacity 3 whose head wraps from slot 0
\* to slot 2 and that evicts a back element different from the new front.
C25_Witness ==
  /\ op = "push_front"
  /\ lhs.capacity = 3 /\ lhs.size = 3 /\ lhs.head = 0
  /\ frame.head = 2 /\ frame.tail = 2
  /\ OpIndex(lhs, 2) # arg
  /\ OpIndex(lhs, 0) # OpIndex(lhs, 1)

\* C26: a traversal with ++ from begin() until the iterator compares equal
\* to end() visits exactly size() elements in front-to-back order, for the
\* iterator and for the const_iterator, whether the buffer is empty, partly
\* filled, full or has its head wrapped.
C26_TraversalVisitsAll ==
  (op \in {"iterator:end", "const_iterator:end"}) =>
    /\ Len(shown) = size(frame)
    /\ shown = Contents(frame)

\* The same for the iterator alone, and for the const_iterator on a buffer
\* that is not full.
TraversalButFullConst ==
  /\ (op = "iterator:end") => shown = Contents(frame)
  /\ (op = "const_iterator:end" /\ ~full(frame)) => shown = Contents(frame)

\* On a full buffer begin() const and end() const hold the same index: the
\* traversal visits nothing.
FullConstTraversalEmpty ==
  (op = "const_iterator:end" /\ full(frame)) => shown = <<>>

====
